---- MODULE Spec2Model ----
(***************************************************************************)
(* AskAGenius: the conversation / routing / video-job pipeline of the      *)
(* Angular application, as a state machine.                                *)
(*                                                                         *)
(* GeniusService is the signal store (currentView, selectedScientist,      *)
(* chatHistory, initialQuestion), GeminiService holds the provider session *)
(* (chat) and the three provider calls, HomeComponent and ChatComponent    *)
(* are the two views AppComponent switches between.  Every handler of the  *)
(* components is one action; every await is a separate action that         *)
(* resumes the suspended call when the provider answers or a timer fires.  *)
(*                                                                         *)
(* Texts are sequences of tokens: SP is a whitespace character, OPEN and   *)
(* CLOSE are the two directive markers, any other token is an ordinary     *)
(* character (or a fixed literal of the code).  Positions in chatHistory   *)
(* are 1-based here and 0-based in the source.                             *)
(*                                                                         *)
(* Speech synthesis (stopAudio / generateAudio) and scrolling keep state   *)
(* that no operation modelled here reads; they are left out.               *)
(***************************************************************************)
EXTENDS Integers, Sequences, FiniteSets, TLC

\* ------------------------------------------------------------------ bounds
MaxAsks   == 2   \* asks accepted by ChatComponent.sendMessage in one run
MaxPolls  == 1   \* "not done yet" answers the video provider gives per job
MaxChats  == 2   \* calls of GeniusService.startChatWithScientist in one run
MaxRoutes == 1   \* routing requests accepted by HomeComponent.submitQuestion
MaxRoutings == 2 \* routing requests accepted when only the home view is driven

\* ------------------------------------------------------------------ values
SP    == " "
OPEN  == "<VIDEO_PROMPT>"
CLOSE == "</VIDEO_PROMPT>"

\* null / undefined of a string-valued field; distinct from every text
Null      == <<"#null">>
Undefined == <<"#undefined">>
NoScientist == "null"

\* JavaScript truthiness of a string-or-null value
Truthy(s) == s # Null /\ s # Undefined /\ s # <<>>

RECURSIVE trimStart(_)
trimStart(s) == IF s # <<>> /\ Head(s) = SP THEN trimStart(Tail(s)) ELSE s

RECURSIVE trimEnd(_)
trimEnd(s) ==
  IF s # <<>> /\ s[Len(s)] = SP THEN trimEnd(SubSeq(s, 1, Len(s) - 1)) ELSE s

\* String.prototype.trim
trim(s) == trimEnd(trimStart(s))

Min(S) == CHOOSE x \in S : \A y \in S : x <= y

\* The gallery: the first two entries of GeniusService.scientists.
scientists ==
  << [id |-> "einstein", name |-> <<"E", "i">>, greeting |-> <<"Guten Tag!">>,
      knowledgeBase |-> "einstein"],
     [id |-> "newton", name |-> <<"N", "e">>, greeting |-> <<"Salutations.">>,
      knowledgeBase |-> "newton"] >>

ScientistById(id) == CHOOSE s \in {scientists[i] : i \in DOMAIN scientists} : s.id = id

\* ------------------------------------------------------------ ChatMessage
\* interface ChatMessage; `ask` is the identity of the Turn: the number of the
\* ask that appended it (0 for a greeting).  It is never read by an operation.
ChatMessage(sender, text, videoStatus, ask) ==
  [sender |-> sender, text |-> text, videoUrl |-> 0, videoStatus |-> videoStatus,
   errorMessage |-> "undefined", videoPrompt |-> Undefined, ask |-> ask]

PLACEHOLDER == <<"...">>
APOLOGY == <<"I apologize, but I've encountered an error and cannot respond at this moment.">>

\* ----------------------------------------------------- DirectiveExtractor
IndexesOf(s, tok) == {i \in 1..Len(s) : s[i] = tok}

\* rawText.match(/<VIDEO_PROMPT>(.*?)<\/VIDEO_PROMPT>/s): the leftmost opening
\* marker that has a closing marker after it, up to the nearest such closing
\* marker.  start = 0 when there is no match.
videoPromptMatch(rawText) ==
  LET closes == IndexesOf(rawText, CLOSE)
      opens  == {i \in IndexesOf(rawText, OPEN) : \E j \in closes : j > i}
  IN  IF opens = {}
      THEN [start |-> 0, end |-> 0, group |-> <<>>]
      ELSE LET i == Min(opens)
               j == Min({k \in closes : k > i})
           IN  [start |-> i, end |-> j, group |-> SubSeq(rawText, i + 1, j - 1)]

\* (mutant) a reply without a video prompt is trimmed too
parseResponseTrimmed(rawText) ==
  LET m == videoPromptMatch(rawText)
  IN  IF m.start # 0 /\ m.group # <<>>
      THEN [text |-> trim(SubSeq(rawText, 1, m.start - 1)
                          \o SubSeq(rawText, m.end + 1, Len(rawText))),
            videoPrompt |-> trim(m.group)]
      ELSE [text |-> trim(rawText), videoPrompt |-> Undefined]

\* The body of the try block of GeminiService.sendMessage after the reply.
parseResponse(rawText) ==
  LET m == videoPromptMatch(rawText)
  IN  IF m.start # 0 /\ m.group # <<>>
      THEN [text |-> trim(SubSeq(rawText, 1, m.start - 1)
                          \o SubSeq(rawText, m.end + 1, Len(rawText))),
            videoPrompt |-> trim(m.group)]
      ELSE [text |-> rawText, videoPrompt |-> Undefined]

\* The catch block of GeminiService.sendMessage.
apologyResponse == [text |-> APOLOGY, videoPrompt |-> Undefined]

\* ------------------------------------------------------------------ inputs
\* What the user types into the chat box and the search bar.
TypedTexts == { <<>>, <<SP>>, <<SP, "q">> }

\* Raw replies of the text provider to a chat message.
RawReplies ==
  { <<"a">>,
    <<"a", OPEN, SP, "p", CLOSE>> }


\* Outcomes of a provider request that throws: the error carries a non-empty
\* string message, or it does not.
ThrowKinds == {"message", "nomessage"}

\* Operation handles the video provider answers with: while the job runs
\* done is false; once done, an error (with or without a string message) and
\* a locator response.generatedVideos[0].video.uri may each be present.
Operations ==
  { [done |-> FALSE, error |-> "none", uri |-> FALSE] }
  \cup [done : {TRUE}, error : {"none", "message", "nomessage"}, uri : BOOLEAN]

\* ------------------------------------------------------------------- state
VARIABLES
  currentView,        \* GeniusService.currentView
  selectedScientist,  \* GeniusService.selectedScientist (the id, or NoScientist)
  chatHistory,        \* GeniusService.chatHistory
  initialQuestion,    \* GeniusService.initialQuestion
  chat,               \* GeminiService.chat: the systemInstruction of the session
  conv,               \* number of Conversations started so far
  chatInst,           \* number of ChatComponents created so far
  isLoading,          \* ChatComponent.isLoading of the live ChatComponent
  newMessage,         \* ChatComponent.newMessage of the live ChatComponent
  homeInst,           \* number of HomeComponents created so far
  question,           \* HomeComponent.question, one per HomeComponent created
  homeIsLoading,      \* HomeComponent.isLoading of the live HomeComponent
  statusMessage,      \* HomeComponent.statusMessage of the live HomeComponent
  asks,               \* the calls of ChatComponent.sendMessage that passed the guard
  jobs,               \* the calls of ChatComponent.generateVideo
  routes,             \* the calls of HomeComponent.submitQuestion that passed the guard
  revoked,            \* blob URLs given to URL.revokeObjectURL
  \* GeminiService called directly, outside the two components:
  svcPc,              \* where the direct call stands
  candidates,         \* the `scientists` argument of findBestScientist
  answerText,         \* response.text of the provider's answer
  chatResponse,       \* the ChatResponse sendMessage returned
  bestReturned,       \* what findBestScientist returned (an id, or "null")
  requests            \* requests the direct call has handed to the provider

serviceVars == <<currentView, selectedScientist, chatHistory, initialQuestion, chat, conv>>
chatVars    == <<chatInst, isLoading, newMessage>>
homeVars    == <<homeInst, question, homeIsLoading, statusMessage>>
directVars  == <<svcPc, candidates, answerText, chatResponse, bestReturned, requests>>
vars == <<currentView, selectedScientist, chatHistory, initialQuestion, chat, conv,
          chatInst, isLoading, newMessage, homeInst, question, homeIsLoading,
          statusMessage, asks, jobs, routes, revoked,
          svcPc, candidates, answerText, chatResponse, bestReturned, requests>>

\* no ChatResponse yet
NoResponse == [text |-> Null, videoPrompt |-> Null]

\* The application after bootstrap: the home view, nothing selected.
Init ==
  /\ currentView = "home"
  /\ selectedScientist = NoScientist
  /\ chatHistory = <<>>
  /\ initialQuestion = Null
  /\ chat = "null"
  /\ conv = 0
  /\ chatInst = 0
  /\ isLoading = FALSE
  /\ newMessage = <<>>
  /\ homeInst = 1
  /\ question = << <<>> >>
  /\ homeIsLoading = FALSE
  /\ statusMessage = "empty"
  /\ asks = <<>>
  /\ jobs = <<>>
  /\ routes = <<>>
  /\ revoked = {}
  /\ svcPc = "idle"
  /\ candidates = <<>>
  /\ answerText = <<>>
  /\ chatResponse = NoResponse
  /\ bestReturned = "null"
  /\ requests = 0

\* ----------------------------------------------------------- GeniusService
\* (mutant) the new history starts without the greeting
greetingHistoryNone(scientist) == <<>>

\* chatHistory.set(...) of startChatWithScientist
greetingHistory(scientist) ==
  IF Truthy(scientist.greeting)
  THEN << ChatMessage("ai", scientist.greeting, "undefined", 0) >>
  ELSE <<>>

addMessage(history, message) == Append(history, message)

\* { ...message, ...update }
Merged(message, update) ==
  [f \in DOMAIN message |-> IF f \in DOMAIN update THEN update[f] ELSE message[f]]

\* ----------------------------------------------------------- ChatComponent
\* ChatComponent.updateMessage, applied to a history
updateMessage(history, index, update) ==
  IF index \in DOMAIN history
  THEN [history EXCEPT ![index] = Merged(@, update)]
  ELSE history

\* const messageText = messageOverride ?? this.newMessage().trim()
messageTextOf(messageOverride, typed) ==
  IF messageOverride # Null THEN messageOverride ELSE trim(typed)

\* if (!messageText || this.isLoading()) return
rejected(messageText, loading) == ~Truthy(messageText) \/ loading

\* (mutant) the index of the last message in place, the user message
aiMessageIndexOfUserTurn(history) == Len(history)

\* (mutant) the index read only after the placeholder is appended
aiMessageIndexAfterAppend(history) == Len(history) + 2

\* the position the placeholder is appended at: chatHistory().length once
\* the user message is in
aiMessageIndex(history) == Len(history) + 1

\* the two addMessage calls of sendMessage; `ask` is the number of this ask
withTurns(history, messageText, ask) ==
  LET h1 == addMessage(history, ChatMessage("user", messageText, "undefined", ask))
  IN  addMessage(h1, ChatMessage("ai", PLACEHOLDER, "idle", ask))

\* (mutant) the request is made whether or not a session exists
sendOutcomeUnguarded(session) == "awaiting"

\* if (!this.chat) throw ...: GeminiService.sendMessage throws at once when no
\* session exists, and otherwise awaits the provider
sendOutcome(session) == IF session = "null" THEN "thrown" ELSE "awaiting"

\* the suspended call: which ChatComponent it runs in, the index it captured,
\* the session it sent to and the Conversation it was issued in.
newAsk(history, messageText, inst, session, c) ==
  [pc |-> sendOutcome(session),
   inst |-> inst, aiMessageIndex |-> aiMessageIndex(addMessage(history, 0)),
   text |-> messageText, session |-> session, conv |-> c]

\* the call has returned: its locals are gone; the Conversation it was issued
\* in stays on record
returnedAsk(ask) ==
  [pc |-> "done", inst |-> 0, aiMessageIndex |-> 0, text |-> <<>>,
   session |-> "null", conv |-> ask.conv]

\* The user sets the chat box to `typed` and sends: ChatComponent.sendMessage()
\* with no override, up to its await.  The chat box is read by nothing else.
sendMessage(typed) ==
  /\ currentView = "chat"
  /\ LET messageText == messageTextOf(Null, typed)
     IN  IF rejected(messageText, isLoading)
         THEN /\ newMessage' = typed
              /\ UNCHANGED <<serviceVars, chatInst, isLoading, homeVars, asks, jobs,
                             routes, revoked, directVars>>
         ELSE /\ Len(asks) < MaxAsks
              /\ isLoading' = TRUE
              /\ chatHistory' = withTurns(chatHistory, messageText, Len(asks) + 1)
              /\ newMessage' = <<>>
              /\ asks' = Append(asks, newAsk(chatHistory, messageText, chatInst, chat, conv))
              /\ UNCHANGED <<currentView, selectedScientist, initialQuestion, chat, conv,
                             chatInst, homeVars, jobs, routes, revoked, directVars>>

\* a new call of generateVideo, up to the first await of generateVideoFromPrompt
newJob(messageIndex, videoPrompt, ask) ==
  [pc |-> "submitting", messageIndex |-> messageIndex, videoPrompt |-> videoPrompt,
   ask |-> ask, polls |-> 0, videoUrl |-> 0, error |-> "undefined", thrownAt |-> "none"]

\* lines 181-193 of sendMessage: the history after the reply is recorded
afterResponse(history, index, response) ==
  LET h1 == updateMessage(history, index, [text |-> response.text])
  IN  IF Truthy(response.videoPrompt)
      THEN updateMessage(h1, index, [videoPrompt |-> response.videoPrompt,
                                     videoStatus |-> "generating"])
      ELSE h1

\* whether ChatComponent number inst is the one displayed
liveChat(inst) == currentView = "chat" /\ inst = chatInst

\* The text provider answers ask a (raw text), or the request fails
\* (failed): sendMessage resumes after its await and runs to its end.
responseReceived(a, failed, rawText) ==
  /\ asks[a].pc = "awaiting"
  /\ LET response == IF failed THEN apologyResponse ELSE parseResponse(rawText)
         index == asks[a].aiMessageIndex
     IN  /\ chatHistory' = afterResponse(chatHistory, index, response)
         /\ jobs' = IF Truthy(response.videoPrompt)
                    THEN Append(jobs, newJob(index, response.videoPrompt, a))
                    ELSE jobs
  /\ isLoading' = IF liveChat(asks[a].inst) THEN FALSE ELSE isLoading
  /\ asks' = [asks EXCEPT ![a] = returnedAsk(@)]
  /\ UNCHANGED <<currentView, selectedScientist, initialQuestion, chat, conv,
                 chatInst, newMessage, homeVars, routes, revoked, directVars>>

\* the blob URLs ngOnDestroy revokes
blobUrls(history) == {history[i].videoUrl : i \in DOMAIN history} \ {0}

\* ChatComponent.goBack: GeniusService.goHome, then AppComponent replaces the
\* ChatComponent (ngOnDestroy) by a new HomeComponent.
goBack ==
  /\ currentView = "chat"
  /\ selectedScientist' = NoScientist
  /\ currentView' = "home"
  /\ revoked' = revoked \cup blobUrls(chatHistory)
  /\ isLoading' = FALSE
  /\ newMessage' = <<>>
  /\ homeInst' = homeInst + 1
  /\ question' = Append(question, <<>>)
  /\ homeIsLoading' = FALSE
  /\ statusMessage' = "empty"
  /\ UNCHANGED <<chatHistory, initialQuestion, chat, conv, chatInst, asks, jobs, routes,
                 directVars>>


\* ------------------------------------------- GeminiService.generateVideoFromPrompt
PROVIDER_MESSAGE   == "provider error message"
GENERATION_FAILED  == "Video generation failed."
URI_NOT_FOUND      == "Video URI not found in response."
DOWNLOAD_FAILED    == "Failed to download video file: statusText"
UNEXPECTED_ERROR   == "An unexpected error occurred during video generation."
FAILED_TO_GENERATE == "Failed to generate video."
TYPE_ERROR         == "Cannot read properties of undefined (reading 'text')"

\* (message && typeof message === 'string') ? message : fallback
messageOr(kind, message, fallback) == IF kind = "message" THEN message ELSE fallback

\* (mutant) the locator is looked at before the error
operationResultLocatorFirst(operation) ==
  IF operation.uri
  THEN [videoUrl |-> -1, error |-> "undefined"]
  ELSE IF operation.error # "none"
       THEN [videoUrl |-> 0,
             error |-> messageOr(operation.error, PROVIDER_MESSAGE, GENERATION_FAILED)]
       ELSE [videoUrl |-> 0, error |-> URI_NOT_FOUND]

\* lines 141-151: what a done operation returns without a download;
\* videoUrl = -1 stands for "go on to the download"
operationResult(operation) ==
  IF operation.error # "none"
  THEN [videoUrl |-> 0,
        error |-> messageOr(operation.error, PROVIDER_MESSAGE, GENERATION_FAILED)]
  ELSE IF ~operation.uri
       THEN [videoUrl |-> 0, error |-> URI_NOT_FOUND]
       ELSE [videoUrl |-> -1, error |-> "undefined"]

\* (mutant) the catch block returns no reason
caughtResultNoReason(kind, message) == [videoUrl |-> 0, error |-> "undefined"]

\* the catch block, lines 171-175
caughtResult(kind, message) ==
  [videoUrl |-> 0, error |-> messageOr(kind, message, UNEXPECTED_ERROR)]

\* (mutant) a finished video marks the message done without storing the URL
afterVideoWithoutUrl(history, messageIndex, result) ==
  IF result.videoUrl # 0
  THEN updateMessage(history, messageIndex, [videoStatus |-> "done"])
  ELSE updateMessage(history, messageIndex,
                     [videoStatus |-> "error", errorMessage |-> result.error])

\* (mutant) a failed video is not reported to the message
afterVideoIgnoringFailure(history, messageIndex, result) ==
  IF result.videoUrl # 0
  THEN updateMessage(history, messageIndex,
                     [videoStatus |-> "done", videoUrl |-> result.videoUrl])
  ELSE history

\* ChatComponent.generateVideo after its await: the history once the result of
\* generateVideoFromPrompt is applied.  When the message is gone,
\* chatHistory()[messageIndex].text throws and the catch block runs.
afterVideo(history, messageIndex, result) ==
  IF result.videoUrl # 0
  THEN LET h1 == updateMessage(history, messageIndex,
                               [videoStatus |-> "done", videoUrl |-> result.videoUrl])
       IN  IF messageIndex \in DOMAIN h1
           THEN h1
           ELSE updateMessage(h1, messageIndex,
                              [videoStatus |-> "error", errorMessage |-> TYPE_ERROR])
  ELSE updateMessage(history, messageIndex,
                     [videoStatus |-> "error",
                      errorMessage |-> IF result.error # "undefined" THEN result.error
                                       ELSE FAILED_TO_GENERATE])

\* the call has returned: its locals are gone; the result and the ask it
\* belonged to stay on record, and with them the request that threw, if one
\* did (thrownAt, read by no operation)
returnedJob(job, result) ==
  [pc |-> "finished", messageIndex |-> 0, videoPrompt |-> <<>>, ask |-> job.ask,
   polls |-> 0, videoUrl |-> result.videoUrl, error |-> result.error,
   thrownAt |-> IF "thrownAt" \in DOMAIN result THEN result.thrownAt ELSE "none"]

\* generateVideoFromPrompt returns result for job j and generateVideo resumes.
finishJob(j, result) ==
  /\ jobs' = [jobs EXCEPT ![j] = returnedJob(@, result)]
  /\ chatHistory' = afterVideo(chatHistory, jobs[j].messageIndex, result)

\* The video provider answers the submit request or a poll request of job j
\* with an operation handle.  After MaxPolls unfinished answers it reports done.
operationReceived(j, operation) ==
  /\ jobs[j].pc \in {"submitting", "polling"}
  /\ ~operation.done => jobs[j].polls < MaxPolls
  /\ IF ~operation.done
     THEN /\ jobs' = [jobs EXCEPT ![j].pc = "sleeping"]
          /\ UNCHANGED chatHistory
     ELSE IF operationResult(operation).videoUrl = -1
          THEN /\ jobs' = [jobs EXCEPT ![j].pc = "downloading"]
               /\ UNCHANGED chatHistory
          ELSE finishJob(j, operationResult(operation))
  /\ UNCHANGED <<currentView, selectedScientist, initialQuestion, chat, conv,
                 chatVars, homeVars, asks, routes, revoked, directVars>>

\* (mutant) a status request is sent for a job already reported done
pollTimerAfterDone(j) ==
  /\ jobs[j].pc \in {"sleeping", "downloading"}
  /\ jobs' = [jobs EXCEPT ![j].pc = "polling", ![j].polls = @ + 1]
  /\ UNCHANGED <<serviceVars, chatVars, homeVars, asks, routes, revoked, directVars>>

\* The 10 s timer of the poll loop fires: the next getVideosOperation is sent.
pollTimer(j) ==
  /\ jobs[j].pc = "sleeping"
  /\ jobs' = [jobs EXCEPT ![j].pc = "polling", ![j].polls = @ + 1]
  /\ UNCHANGED <<serviceVars, chatVars, homeVars, asks, routes, revoked, directVars>>

\* generateVideos, getVideosOperation or fetch throws.
requestThrows(j, kind) ==
  /\ jobs[j].pc \in {"submitting", "polling", "downloading"}
  /\ finishJob(j, [thrownAt |-> jobs[j].pc] @@ caughtResult(kind, PROVIDER_MESSAGE))
  /\ UNCHANGED <<currentView, selectedScientist, initialQuestion, chat, conv,
                 chatVars, homeVars, asks, routes, revoked, directVars>>

\* fetch(downloadUrl) answers: with ok, URL.createObjectURL makes the blob URL
\* of job j (the number j); otherwise the code throws into its catch block.
downloadReceived(j, ok) ==
  /\ jobs[j].pc = "downloading"
  /\ finishJob(j, IF ok THEN [videoUrl |-> j, error |-> "undefined"]
                        ELSE caughtResult("message", DOWNLOAD_FAILED))
  /\ UNCHANGED <<currentView, selectedScientist, initialQuestion, chat, conv,
                 chatVars, homeVars, asks, routes, revoked, directVars>>


\* ------------------------------------------- GeminiService.findBestScientist
lowerChar(c) == CASE c = "E" -> "e" [] c = "N" -> "n" [] c = "O" -> "o" [] OTHER -> c

\* String.prototype.toLowerCase
toLowerCase(s) == [i \in 1..Len(s) |-> lowerChar(s[i])]

NONE == <<"n", "o", "n", "e">>

\* (mutant) an answer that names nobody falls back to the head of the list
findBestScientistOrHead(responseText, list) ==
  LET bestScientistName == trim(responseText)
      hits == {i \in DOMAIN list : toLowerCase(list[i].name) = toLowerCase(bestScientistName)}
  IN  IF toLowerCase(bestScientistName) = NONE \/ list = <<>>
      THEN "null"
      ELSE IF hits = {} THEN list[1].id ELSE list[Min(hits)].id

\* (mutant) the answer is compared as it came, without trim()
findBestScientistUntrimmed(responseText, list) ==
  LET hits == {i \in DOMAIN list : toLowerCase(list[i].name) = toLowerCase(responseText)}
  IN  IF toLowerCase(responseText) = NONE
      THEN "null"
      ELSE IF hits = {} THEN "null" ELSE list[Min(hits)].id

\* lines 58-65: from the provider's answer text to a scientist id or "null"
findBestScientist(responseText, list) ==
  LET bestScientistName == trim(responseText)
      hits == {i \in DOMAIN list : toLowerCase(list[i].name) = toLowerCase(bestScientistName)}
  IN  IF toLowerCase(bestScientistName) = NONE
      THEN "null"
      ELSE IF hits = {} THEN "null" ELSE list[Min(hits)].id

\* (mutant) a failed routing request falls back to the head of the gallery
bestOrHead(failed, responseText) ==
  IF failed THEN scientists[1].id ELSE findBestScientist(responseText, scientists)

\* lines 56-69: what findBestScientist resolves to for the gallery, the catch
\* block included
bestOrNull(failed, responseText) ==
  IF failed THEN "null" ELSE findBestScientist(responseText, scientists)

\* Answers of the text provider to the routing prompt.
RouteAnswers ==
  { <<"E", "i">>, <<SP, "n", "e", SP>>, <<"N", "o", "n", "e">>, <<"X">> }

\* ------------------------------------------------ entering the chat view
\* GeniusService.startChatWithScientist(scientist, q) and what AppComponent
\* does with the new currentView: coming from the home view it creates a
\* ChatComponent, whose ngOnInit starts the session and sends the stored
\* question; in the chat view already, the ChatComponent stays as it is.
enterChat(scientist, q) ==
  LET fresh == currentView = "home"
      greeted == greetingHistory(scientist)
      seeded == fresh /\ Truthy(q) /\ ~rejected(messageTextOf(q, <<>>), FALSE)
  IN  /\ conv < MaxChats
      /\ seeded => Len(asks) < MaxAsks
      /\ selectedScientist' = scientist.id
      /\ currentView' = "chat"
      /\ conv' = conv + 1
      /\ IF fresh
         THEN /\ chatInst' = chatInst + 1
              /\ newMessage' = <<>>
              /\ chat' = scientist.knowledgeBase
              /\ IF seeded
                 THEN /\ initialQuestion' = Null
                      /\ isLoading' = TRUE
                      /\ chatHistory' = withTurns(greeted, messageTextOf(q, <<>>), Len(asks) + 1)
                      /\ asks' = Append(asks, newAsk(greeted, messageTextOf(q, <<>>), chatInst + 1,
                                                     scientist.knowledgeBase, conv + 1))
                 ELSE /\ initialQuestion' = (IF Truthy(q) THEN Null ELSE q)
                      /\ isLoading' = FALSE
                      /\ chatHistory' = greeted
                      /\ asks' = asks
         ELSE /\ initialQuestion' = q
              /\ chatHistory' = greeted
              /\ UNCHANGED <<chatInst, newMessage, chat, isLoading, asks>>

\* ----------------------------------------------------------- HomeComponent
liveHome(inst) == currentView = "home" /\ inst = homeInst

\* A destroyed HomeComponent is referenced only by its suspended calls of
\* submitQuestion; without one, nothing can read its question signal again
\* and the model records it as ''.
referenced(rs, inst) ==
  \E r \in DOMAIN rs : rs[r].inst = inst /\ rs[r].pc \in {"routing", "delay"}

collected(q, rs, view) ==
  [i \in DOMAIN q |->
     IF (view = "home" /\ i = Len(q)) \/ referenced(rs, i) THEN q[i] ELSE <<>>]

\* The user edits the search bar.
typeQuestion(t) ==
  /\ currentView = "home"
  /\ question[homeInst] # t
  /\ question' = [question EXCEPT ![homeInst] = t]
  /\ UNCHANGED <<serviceVars, chatVars, homeInst, homeIsLoading, statusMessage,
                 asks, jobs, routes, revoked, directVars>>

\* HomeComponent.selectScientist: a click on a card of the gallery.
selectScientist(i) ==
  /\ currentView = "home"
  /\ LET currentQuestion == trim(question[homeInst])
     IN  /\ enterChat(scientists[i], IF Truthy(currentQuestion) THEN currentQuestion ELSE Null)
         /\ question' = collected(IF Truthy(currentQuestion)
                                  THEN [question EXCEPT ![homeInst] = <<>>]
                                  ELSE question, routes, "chat")
  /\ homeIsLoading' = FALSE
  /\ statusMessage' = "empty"
  /\ UNCHANGED <<homeInst, jobs, routes, revoked, directVars>>

\* HomeComponent.submitQuestion, up to its await.  `question` of the route is
\* the argument handed to findBestScientist; no operation reads it afterwards.
\* `limit` bounds the number of requests a behaviour holds.
submitQuestionWithin(limit) ==
  /\ currentView = "home"
  /\ IF ~Truthy(trim(question[homeInst]))
     THEN UNCHANGED vars
     ELSE /\ Len(routes) < limit
          /\ homeIsLoading' = TRUE
          /\ statusMessage' = "consulting"
          /\ routes' = Append(routes, [pc |-> "routing", inst |-> homeInst,
                                       question |-> question[homeInst],
                                       bestScientist |-> "null", failed |-> FALSE])
          /\ UNCHANGED <<serviceVars, chatVars, homeInst, question, asks, jobs, revoked, directVars>>

submitQuestion == submitQuestionWithin(MaxRoutes)

\* The text provider answers routing request r (or the request fails):
\* findBestScientist returns and submitQuestion resumes after its await.
\* `failed` of the route records, for the advisory it shows, that the request
\* failed; it is read by no operation.
routeReceived(r, failed, responseText) ==
  /\ routes[r].pc = "routing"
  /\ LET bestScientist == bestOrNull(failed, responseText)
     IN  IF bestScientist # "null"
         THEN /\ routes' = [routes EXCEPT ![r].pc = "delay", ![r].failed = failed,
                                          ![r].bestScientist = bestScientist]
              /\ statusMessage' = IF liveHome(routes[r].inst) THEN bestScientist
                                  ELSE statusMessage
              /\ UNCHANGED homeIsLoading
         ELSE /\ routes' = [routes EXCEPT ![r].pc = "advisory", ![r].failed = failed,
                                          ![r].question = <<>>]
              /\ statusMessage' = IF liveHome(routes[r].inst) THEN "advisory"
                                  ELSE statusMessage
              /\ homeIsLoading' = IF liveHome(routes[r].inst) THEN FALSE
                                  ELSE homeIsLoading
  /\ question' = collected(question, routes', currentView)
  /\ UNCHANGED <<serviceVars, chatVars, homeInst, asks, jobs, revoked, directVars>>

\* The 3 s display timer of routing request r fires.
displayTimer(r) ==
  /\ routes[r].pc = "delay"
  /\ enterChat(ScientistById(routes[r].bestScientist), question[routes[r].inst])
  /\ routes' = [routes EXCEPT ![r].pc = "done", ![r].failed = FALSE,
                               ![r].question = <<>>, ![r].bestScientist = "null"]
  /\ question' = collected([question EXCEPT ![routes[r].inst] = <<>>], routes', "chat")
  /\ homeIsLoading' = FALSE
  /\ statusMessage' = "empty"
  /\ UNCHANGED <<homeInst, jobs, revoked, directVars>>

\* The 5 s timer that clears the advisory message fires.
advisoryTimer(r) ==
  /\ routes[r].pc = "advisory"
  /\ statusMessage' = IF liveHome(routes[r].inst) THEN "empty" ELSE statusMessage
  /\ routes' = [routes EXCEPT ![r].pc = "done", ![r].failed = FALSE]
  /\ UNCHANGED <<serviceVars, chatVars, homeInst, question, homeIsLoading,
                 asks, jobs, revoked, directVars>>

\* -------------------------------------------------------------------- Next
Next ==
  \/ \E t \in TypedTexts : typeQuestion(t)
  \/ \E i \in DOMAIN scientists : selectScientist(i)
  \/ submitQuestion
  \/ \E r \in DOMAIN routes : \E failed \in BOOLEAN : \E t \in RouteAnswers :
       routeReceived(r, failed, t)
  \/ \E r \in DOMAIN routes : displayTimer(r)
  \/ \E r \in DOMAIN routes : advisoryTimer(r)
  \/ \E t \in TypedTexts : sendMessage(t)
  \/ \E a \in DOMAIN asks : \E failed \in BOOLEAN : \E t \in RawReplies :
       responseReceived(a, failed, t)
  \/ goBack
  \/ \E j \in DOMAIN jobs : \E o \in Operations : operationReceived(j, o)
  \/ \E j \in DOMAIN jobs : pollTimer(j)
  \/ \E j \in DOMAIN jobs : \E k \in ThrowKinds : requestThrows(j, k)
  \/ \E j \in DOMAIN jobs : \E ok \in BOOLEAN : downloadReceived(j, ok)

Spec == Init /\ [][Next]_vars


\* ================================================================== claims
\* the step in which ask a resumes after its await and runs to its end
completes(a) == asks[a].pc = "awaiting" /\ asks'[a].pc = "done"

\* the step in which generateVideo of job j resumes and applies the result
finishes(j) == jobs[j].pc # "finished" /\ jobs'[j].pc = "finished"

\* the positions in history h of the agent Turn that ask a appended
agentTurns(h, a) == {i \in DOMAIN h : h[i].ask = a /\ h[i].sender = "ai"}

\* C1: a conversation has at most one outstanding ask at any time, also
\* across goHome / selectPersona: while one ask awaits the provider reply no
\* further ask is accepted.
C1_OneOutstandingAsk ==
  Cardinality({a \in DOMAIN asks : asks[a].pc = "awaiting"}) <= 1

\* C2: an ask with empty or whitespace-only text is a no-op, from the input
\* field or as the override argument: no accepted ask, and so no user Turn
\* and no provider request, ever carries a blank text.
C2_BlankAskIsNoOp ==
  /\ \A a \in DOMAIN asks : asks[a].pc = "awaiting" => trim(asks[a].text) # <<>>
  /\ \A i \in DOMAIN chatHistory :
       chatHistory[i].sender = "user" => trim(chatHistory[i].text) # <<>>

\* C3: when an accepted ask completes, the Conversation holds exactly two more
\* Turns than before the call: the user Turn and then the agent Turn of this
\* ask, whatever happened while the ask was pending.
C3_TwoMoreTurns ==
  [][\A a \in DOMAIN asks :
       completes(a) =>
         LET before == asks[a].aiMessageIndex - 2
         IN  /\ Len(chatHistory') = before + 2
             /\ chatHistory'[before + 1].sender = "user"
             /\ chatHistory'[before + 1].ask = a
             /\ chatHistory'[before + 2].sender = "ai"
             /\ chatHistory'[before + 2].ask = a]_vars

\* C4: Turns are never written out of append order: every user Turn is
\* immediately followed by the agent Turn of the same ask, and the index an ask
\* captures is the position of its agent Turn, the last one, when it is
\* appended.
C4_AppendOrder ==
  /\ [](\A i \in DOMAIN chatHistory :
          chatHistory[i].sender = "user" =>
            /\ i + 1 \in DOMAIN chatHistory
            /\ chatHistory[i + 1].sender = "ai"
            /\ chatHistory[i + 1].ask = chatHistory[i].ask)
  /\ [][Len(asks') = Len(asks) + 1 =>
          LET a == Len(asks')
          IN  /\ asks'[a].aiMessageIndex = Len(chatHistory')
              /\ agentTurns(chatHistory', a) = {asks'[a].aiMessageIndex}]_vars

\* an ask has appended its two Turns and captured the index of the second
C4_Witness ==
  \E a \in DOMAIN asks :
    /\ asks[a].pc = "awaiting"
    /\ asks[a].aiMessageIndex = 5
    /\ agentTurns(chatHistory, a) = {5}

\* C5: every asynchronous update made by an ask (the reply, the directive, the
\* job's result) changes the agent Turn this ask appended and no other Turn.
C5_UpdateByIdentity ==
  [][/\ \A a \in DOMAIN asks :
          completes(a) =>
            \A i \in DOMAIN chatHistory :
              chatHistory'[i] # chatHistory[i] => i \in agentTurns(chatHistory, a)
     /\ \A j \in DOMAIN jobs :
          finishes(j) =>
            \A i \in DOMAIN chatHistory :
              chatHistory'[i] # chatHistory[i] => i \in agentTurns(chatHistory, jobs[j].ask)]_vars

\* idle -> generating -> done | error, and nothing else
monotonic(s, t) ==
  \/ s = t
  \/ s = "idle" /\ t = "generating"
  \/ s = "generating" /\ t \in {"done", "error"}

\* C6: the video status of every Turn only moves idle -> generating -> done or
\* idle -> generating -> error.
C6_StatusMonotonic ==
  [][\A i \in DOMAIN chatHistory :
       (/\ i \in DOMAIN chatHistory'
        /\ chatHistory[i].ask # 0
        /\ chatHistory'[i].ask = chatHistory[i].ask
        /\ chatHistory'[i].sender = chatHistory[i].sender)
       => monotonic(chatHistory[i].videoStatus, chatHistory'[i].videoStatus)]_vars


\* C7 as stated: a job for which the provider reports done with a valid
\* locator leaves its Turn done with a non-empty videoUrl; one reported done
\* with no locator leaves its Turn in error with the generic reason.  (A job
\* is downloading exactly when the provider reported done with a locator
\* and no error.)
C7_DoneWithLocator ==
  [][\A j \in DOMAIN jobs :
       finishes(j) =>
         \A i \in agentTurns(chatHistory', jobs[j].ask) :
           /\ jobs[j].pc = "downloading" =>
                /\ chatHistory'[i].videoStatus = "done"
                /\ chatHistory'[i].videoUrl # 0
           /\ jobs'[j].error = URI_NOT_FOUND =>
                /\ chatHistory'[i].videoStatus = "error"
                /\ chatHistory'[i].errorMessage = URI_NOT_FOUND]_vars

\* C7 as amended: a job reported done with a valid locator and no error leaves
\* its Turn done with the blob URL when the download succeeds, and in error with
\* the download's reason when it does not; a job reported done with no locator
\* and no error leaves its Turn in error with "Video URI not found in response.".
\* A blob URL only ever comes from a download.
C7_DoneWithLocatorDownloaded ==
  [][\A j \in DOMAIN jobs :
       finishes(j) =>
         /\ jobs'[j].videoUrl # 0 => jobs[j].pc = "downloading"
         /\ \A i \in agentTurns(chatHistory', jobs[j].ask) :
              /\ jobs'[j].videoUrl # 0 =>
                   /\ chatHistory'[i].videoStatus = "done"
                   /\ chatHistory'[i].videoUrl = jobs'[j].videoUrl
              /\ (jobs[j].pc = "downloading" /\ jobs'[j].videoUrl = 0) =>
                   /\ chatHistory'[i].videoStatus = "error"
                   /\ chatHistory'[i].errorMessage = jobs'[j].error
                   /\ chatHistory'[i].videoUrl = chatHistory[i].videoUrl
              /\ jobs'[j].error = URI_NOT_FOUND =>
                   /\ chatHistory'[i].videoStatus = "error"
                   /\ chatHistory'[i].errorMessage = URI_NOT_FOUND]_vars

\* a job was reported done with a locator, its download succeeded and its own
\* Turn shows the blob URL
C7_Witness ==
  \E j \in DOMAIN jobs :
    /\ jobs[j].pc = "finished"
    /\ jobs[j].videoUrl = j
    /\ \E i \in agentTurns(chatHistory, jobs[j].ask) :
         chatHistory[i].videoStatus = "done" /\ chatHistory[i].videoUrl = j

\* the agent Turn of ask a is in the history with status generating
generating(a) ==
  \E i \in agentTurns(chatHistory, a) : chatHistory[i].videoStatus = "generating"

\* C8: no Turn stays in status generating forever, provided the video provider
\* eventually reports done or a request fails.
C8_NoStuckGenerating ==
  \A a \in 1..MaxAsks : generating(a) ~> ~generating(a)

\* a Turn that was generating has been taken to error by its job
C8_Witness ==
  \E j \in DOMAIN jobs :
    /\ jobs[j].pc = "finished"
    /\ jobs[j].error = DOWNLOAD_FAILED
    /\ \E i \in agentTurns(chatHistory, jobs[j].ask) :
         /\ chatHistory[i].videoStatus = "error"
         /\ chatHistory[i].errorMessage = jobs[j].error

\* C9: polling does not block the conversation: the busy flag of the displayed
\* ChatComponent is cleared when its ask has recorded the reply and started the
\* job, and the completion of a job changes only the Turn of that job.
C9_PollingDoesNotInterfere ==
  [][/\ \A a \in DOMAIN asks :
          (completes(a) /\ liveChat(asks[a].inst)) => ~isLoading'
     /\ \A j \in DOMAIN jobs :
          finishes(j) =>
            \A i \in DOMAIN chatHistory :
              chatHistory'[i] # chatHistory[i] =>
                (i \in agentTurns(chatHistory, jobs[j].ask) /\ i = jobs[j].messageIndex)]_vars

\* the Conversation that owns job j has been discarded
discarded(j) == currentView = "home" \/ conv # asks[jobs[j].ask].conv

\* C10: once the Conversation that owns a job is discarded, no further status
\* request is sent for that job and no artifact of it is produced.
C10_StopsPollingWhenDiscarded ==
  [][\A j \in DOMAIN jobs :
       /\ (jobs[j].pc = "sleeping" /\ jobs'[j].pc = "polling") => ~discarded(j)
       /\ (finishes(j) /\ discarded(j)) => jobs'[j].videoUrl = 0]_vars

\* ------------------------------------------------- the chat view, with fairness
\* The operations of the gallery and the chat view, without the search bar.
ChatNext ==
  \/ \E i \in DOMAIN scientists : selectScientist(i)
  \/ \E t \in TypedTexts : sendMessage(t)
  \/ \E a \in DOMAIN asks : \E failed \in BOOLEAN : \E t \in RawReplies :
       responseReceived(a, failed, t)
  \/ goBack
  \/ \E j \in DOMAIN jobs : \E o \in Operations : operationReceived(j, o)
  \/ \E j \in DOMAIN jobs : pollTimer(j)
  \/ \E j \in DOMAIN jobs : \E k \in ThrowKinds : requestThrows(j, k)
  \/ \E j \in DOMAIN jobs : \E ok \in BOOLEAN : downloadReceived(j, ok)

\* any step of generateVideo / generateVideoFromPrompt for job j
jobStep(j) ==
  /\ j \in DOMAIN jobs
  /\ \/ \E o \in Operations : operationReceived(j, o)
     \/ pollTimer(j)
     \/ \E k \in ThrowKinds : requestThrows(j, k)
     \/ \E ok \in BOOLEAN : downloadReceived(j, ok)

\* Timers fire and every request to the video provider is answered or fails.
FairSpec ==
  Init /\ [][ChatNext]_vars /\ \A j \in 1..MaxAsks : WF_vars(jobStep(j))

\* ------------------------------------------- GeminiService called directly
\* The three methods of GeminiService that talk to the text provider, driven
\* by a caller of the service itself: startChat, sendMessage, findBestScientist.
MaxTextLen    == 6   \* tokens in a reply of the text provider
MaxCandidates == 2   \* scientists in the list handed to findBestScientist

\* A reply is any text of whitespace (SP: blank, tab or line break), ordinary
\* characters and the two markers.
Tokens == {SP, "a", OPEN, CLOSE}
ReplyTexts == UNION { [1..k -> Tokens] : k \in 0..MaxTextLen }

\* Lists of scientists as a caller may supply them: names in either letter
\* case, the same name twice; the id tells the elements apart.
CandidateNames == { <<"E", "i">>, <<"N", "e">>, <<"n", "e">> }
PositionIds == <<"first", "second", "third">>
CandidateLists ==
  UNION { { [i \in 1..k |-> [id |-> PositionIds[i], name |-> names[i]]] :
            names \in [1..k -> CandidateNames] } : k \in 0..MaxCandidates }

\* Answers of the text provider to the routing prompt, with "none" in several
\* letter cases.
RouterAnswers ==
  RouteAnswers \cup { <<"n", "E">>, <<"n", "O", "N", "E">>, <<SP, "n", "o", "n", "e">> }

appVars == <<currentView, selectedScientist, chatHistory, initialQuestion, conv,
             chatVars, homeVars, asks, jobs, routes, revoked>>

\* a direct call has returned or thrown
directReturned == svcPc \in {"returned", "thrown", "routed"}

\* GeminiService.startChat(scientists[i])
startChat(i) ==
  /\ chat' = scientists[i].knowledgeBase
  /\ UNCHANGED <<appVars, directVars>>

\* GeminiService.sendMessage(message) up to its await, or to its throw when
\* there is no session.
directSend ==
  /\ svcPc = "idle"
  /\ svcPc' = sendOutcome(chat)
  /\ requests' = IF svcPc' = "thrown" THEN requests ELSE requests + 1
  /\ UNCHANGED <<appVars, chat, candidates, answerText, chatResponse, bestReturned>>

\* The provider answers the chat request with text t.
directReply(t) ==
  /\ svcPc = "awaiting"
  /\ svcPc' = "returned"
  /\ answerText' = t
  /\ chatResponse' = parseResponse(t)
  /\ UNCHANGED <<appVars, chat, candidates, bestReturned, requests>>

\* The chat request fails: the catch block of sendMessage.
directSendFails ==
  /\ svcPc = "awaiting"
  /\ svcPc' = "returned"
  /\ answerText' = Null
  /\ chatResponse' = apologyResponse
  /\ UNCHANGED <<appVars, chat, candidates, bestReturned, requests>>

\* GeminiService.findBestScientist(question, list) up to its await.
directFindBest(list) ==
  /\ svcPc = "idle"
  /\ svcPc' = "routing"
  /\ requests' = requests + 1
  /\ candidates' = list
  /\ UNCHANGED <<appVars, chat, answerText, chatResponse, bestReturned>>

\* The provider answers the routing request with text t.
directAnswer(t) ==
  /\ svcPc = "routing"
  /\ svcPc' = "routed"
  /\ answerText' = t
  /\ bestReturned' = findBestScientist(t, candidates)
  /\ UNCHANGED <<appVars, chat, candidates, chatResponse, requests>>

\* The routing request fails: the catch block of findBestScientist.
directRouteFails ==
  /\ svcPc = "routing"
  /\ svcPc' = "routed"
  /\ answerText' = Null
  /\ bestReturned' = "null"
  /\ UNCHANGED <<appVars, chat, candidates, chatResponse, requests>>

\* The caller has taken the result, or caught the error, of its call.
directDone ==
  /\ directReturned
  /\ svcPc' = "idle"
  /\ candidates' = <<>>
  /\ answerText' = <<>>
  /\ chatResponse' = NoResponse
  /\ bestReturned' = "null"
  /\ requests' = 0
  /\ UNCHANGED <<appVars, chat>>

ServiceNext ==
  \/ \E i \in DOMAIN scientists : startChat(i)
  \/ directSend
  \/ \E t \in ReplyTexts : directReply(t)
  \/ directSendFails
  \/ \E list \in CandidateLists : directFindBest(list)
  \/ \E t \in RouterAnswers : directAnswer(t)
  \/ directRouteFails
  \/ directDone

ServiceSpec == Init /\ [][ServiceNext]_vars

\* C11: no state is shared across Conversations: the reply of an ask, or the
\* completion of a job of an ask, that was issued in an earlier Conversation
\* changes no Turn of the current one.
C11_NoCrossConversationUpdate ==
  [][/\ \A a \in DOMAIN asks :
          (completes(a) /\ asks[a].conv # conv) => chatHistory' = chatHistory
     /\ \A j \in DOMAIN jobs :
          (finishes(j) /\ asks[jobs[j].ask].conv # conv) => chatHistory' = chatHistory]_vars

\* the candidate's name equals the answered name, letter case aside
sameName(candidate, text) == toLowerCase(candidate.name) = toLowerCase(trim(text))

\* C12: findBestScientist returns an element of the supplied list or none, and
\* never a scientist whose name differs, letter case aside, from the name the
\* provider answered.
C12_MemberOrNone ==
  svcPc = "routed" =>
    \/ bestReturned = "null"
    \/ \E i \in DOMAIN candidates :
         /\ candidates[i].id = bestReturned
         /\ answerText # Null
         /\ sameName(candidates[i], answerText)

\* the provider answered " ne " and the second of two candidates, "ne", came back
C12_Witness ==
  /\ svcPc = "routed"
  /\ Len(candidates) = 2
  /\ candidates[1].name = <<"E", "i">>
  /\ answerText = <<SP, "n", "e", SP>>
  /\ bestReturned = candidates[2].id

\* a routing request that failed has been answered with the advisory
failedRoute(r) == routes[r].pc = "advisory" /\ routes[r].failed

\* C13: a failure of the provider during findBestScientist is caught and mapped
\* to none: submitQuestion resumes, shows the advisory message and clears its
\* loading flag.
C13_FailureMapsToNone ==
  [][\A r \in DOMAIN routes :
       (routes[r].pc = "routing" /\ routes'[r].failed) =>
         /\ routes'[r].pc = "advisory"
         /\ (currentView = "home" /\ routes[r].inst = homeInst) =>
              (statusMessage' = "advisory" /\ ~homeIsLoading')
         /\ UNCHANGED <<serviceVars, chatVars, asks, jobs>>]_vars

\* the routing request of the displayed HomeComponent failed and the advisory
\* is shown with the loading flag cleared
C13_Witness ==
  \E r \in DOMAIN routes :
    /\ failedRoute(r)
    /\ currentView = "home" /\ routes[r].inst = homeInst
    /\ statusMessage = "advisory"
    /\ ~homeIsLoading

isMarker(tok) == tok \in {OPEN, CLOSE}

\* the markers of a text, in order
markers(s) == SelectSeq(s, isMarker)

\* every opening marker is closed before the next one opens, and no closing
\* marker comes without an opening one: OPEN CLOSE OPEN CLOSE ...
alternating(m) ==
  /\ Len(m) % 2 = 0
  /\ \A k \in DOMAIN m : m[k] = (IF k % 2 = 1 THEN OPEN ELSE CLOSE)

\* the number of well-formed regions of a text whose markers are well-formed
regionCount(s) == Len(markers(s)) \div 2

\* a well-formed region somewhere in the text: an opening marker, no marker,
\* a closing marker
hasRegion(s) ==
  \E i, j \in DOMAIN s :
    /\ i < j /\ s[i] = OPEN /\ s[j] = CLOSE
    /\ \A k \in (i + 1)..(j - 1) : ~isMarker(s[k])

\* the first region of a text whose markers are well-formed
firstOpen(s)  == Min(IndexesOf(s, OPEN))
firstClose(s) == Min(IndexesOf(s, CLOSE))
firstInner(s) == SubSeq(s, firstOpen(s) + 1, firstClose(s) - 1)
withoutFirstRegion(s) ==
  SubSeq(s, 1, firstOpen(s) - 1) \o SubSeq(s, firstClose(s) + 1, Len(s))

\* sendMessage has returned the extraction of a reply of the provider
extracted == svcPc = "returned" /\ answerText # Null

\* C15: for a reply with a well-formed region, whose inner content may be
\* empty or whitespace only, the directive is the trimmed inner content and the
\* clean text is the reply without the region, markers included, trimmed.
C15_ExtractsRegion ==
  (extracted /\ alternating(markers(answerText)) /\ regionCount(answerText) = 1) =>
    /\ chatResponse.videoPrompt = trim(firstInner(answerText))
    /\ chatResponse.text = trim(withoutFirstRegion(answerText))

\* C16 as stated: for a reply with no well-formed region there is no directive
\* and the clean text is the trimmed reply.
C16_NoRegionTrimmed ==
  (extracted /\ ~hasRegion(answerText)) =>
    /\ chatResponse.videoPrompt = Undefined
    /\ chatResponse.text = trim(answerText)

\* C16 as amended: for a reply with no well-formed region there is no
\* directive and the clean text is the reply unchanged, not trimmed.
C16_NoRegionUnchanged ==
  (extracted /\ ~hasRegion(answerText)) =>
    /\ chatResponse.videoPrompt = Undefined
    /\ chatResponse.text = answerText

\* a reply " a " without markers came back with its whitespace
C16_Witness ==
  /\ extracted
  /\ answerText = <<SP, "a", SP>>
  /\ chatResponse = [text |-> <<SP, "a", SP>>, videoPrompt |-> Undefined]

\* C17: when the markers of a reply are malformed (an opening marker that is
\* never closed, a closing marker that nothing opened, an opening marker
\* inside an open region) the whole reply is returned unchanged as the clean
\* text, with no directive.
C17_MalformedUnchanged ==
  (extracted /\ ~alternating(markers(answerText))) =>
    chatResponse = [text |-> answerText, videoPrompt |-> Undefined]

\* C18: at most one directive per reply: with several well-formed regions the
\* directive is the trimmed content of the first, only the first region is
\* removed and every later region stays in the clean text.
C18_FirstRegionOnly ==
  (extracted /\ alternating(markers(answerText)) /\ regionCount(answerText) >= 2) =>
    /\ chatResponse.videoPrompt = trim(firstInner(answerText))
    /\ chatResponse.text = trim(withoutFirstRegion(answerText))
    /\ regionCount(chatResponse.text) = regionCount(answerText) - 1

\* C19: sendMessage called before any startChat throws, hands nothing to the
\* provider and returns no result; with a session it never throws: the call
\* awaits the provider and then returns.
C19_NotStartedThrows ==
  [][/\ (svcPc' = "thrown" /\ svcPc # "thrown") =>
          (chat = "null" /\ requests' = requests /\ chatResponse' = NoResponse)
     /\ (svcPc = "idle" /\ chat = "null" /\ svcPc' \notin {"idle", "routing"}) =>
          svcPc' = "thrown"
     /\ (svcPc = "idle" /\ chat # "null" /\ svcPc' \notin {"idle", "routing"}) =>
          (svcPc' = "awaiting" /\ requests' = requests + 1)
     /\ svcPc = "awaiting" => svcPc' \in {"awaiting", "returned"}]_vars

\* sendMessage was called with no session and threw, with no request made
C19_Witness == svcPc = "thrown" /\ chat = "null" /\ requests = 0

\* C20: a failure of the provider during sendMessage is caught and becomes the
\* apology with no directive; the ask completes: its agent Turn shows the
\* apology with status idle, no job is started, the busy flag of its
\* ChatComponent is cleared and the session stays, so that a following ask is
\* accepted and sent on it.
C20_FailureGivesApology ==
  [][\A a \in DOMAIN asks :
       (asks[a].pc = "awaiting" /\ \E t \in RawReplies : responseReceived(a, TRUE, t)) =>
         /\ asks'[a].pc = "done"
         /\ \A i \in agentTurns(chatHistory', a) :
              /\ chatHistory'[i].text = APOLOGY
              /\ chatHistory'[i].videoStatus = "idle"
              /\ chatHistory'[i].videoPrompt = Undefined
         /\ jobs' = jobs
         /\ chat' = chat /\ chat # "null"
         /\ liveChat(asks[a].inst) => ~isLoading']_vars

\* the step in which startChatWithScientist starts a new Conversation
selectsPersona == conv' = conv + 1

\* C21: selectPersona resets the Conversation: right after it the history is
\* the single agent Turn with the greeting of the selected persona (empty for a
\* persona without greeting), followed at most by the two Turns of the seed
\* question asked in the same step; no Turn of an earlier Conversation remains.
C21_SelectResetsHistory ==
  [][selectsPersona =>
       LET greeting == ScientistById(selectedScientist').greeting
           greets == IF Truthy(greeting) THEN 1 ELSE 0
       IN  /\ Len(chatHistory') \in {greets, greets + 2}
           /\ greets = 1 =>
                /\ chatHistory'[1].sender = "ai"
                /\ chatHistory'[1].text = greeting
                /\ chatHistory'[1].ask = 0
           /\ \A i \in DOMAIN chatHistory' :
                i > greets => (chatHistory'[i].ask = Len(asks') /\ Len(asks') = Len(asks) + 1)]_vars

\* a second Conversation has just been started and shows only the greeting,
\* while the first one had Turns
C21_Witness ==
  /\ conv = 2
  /\ Len(asks) = 1
  /\ asks[1].conv = 1
  /\ selectedScientist = "newton"
  /\ Len(chatHistory) = 1
  /\ chatHistory[1].text = <<"Salutations.">>

\* the step in which an ask is accepted and sent
sends == Len(asks') = Len(asks) + 1

\* C22: a Conversation is bound to one persona: every selectPersona starts a
\* session for the selected persona, so every send goes to a session created
\* with the system instruction of the persona shown as selected.
C22_SessionOfSelectedPersona ==
  [][/\ selectsPersona => chat' = ScientistById(selectedScientist').knowledgeBase
     /\ sends => /\ selectedScientist' # NoScientist
                 /\ asks'[Len(asks')].session =
                      ScientistById(selectedScientist').knowledgeBase]_vars

\* a seed question: a text that is not blank
isSeed(q) == q # Null /\ trim(q) # <<>>

\* what C23 says of a selectPersona step that was given q
seedAskedOnce(q) ==
  IF isSeed(q)
  THEN LET n == Len(asks')
           last == Len(chatHistory')
       IN  /\ sends
           /\ asks'[n].text = q
           /\ asks'[n].conv = conv'
           /\ last = 3
           /\ chatHistory'[1].ask = 0
           /\ chatHistory'[2].sender = "user" /\ chatHistory'[2].text = q
           /\ chatHistory'[3].sender = "ai" /\ chatHistory'[3].ask = n
  ELSE asks' = asks

\* C23: a seed question given to selectPersona is asked exactly once, in the
\* new Conversation and at once (greeting, user Turn with the seed, agent
\* Turn); without a seed no ask is issued.
C23_SeedAskedOnce ==
  [][/\ \A i \in DOMAIN scientists :
          selectScientist(i) =>
            seedAskedOnce(IF Truthy(trim(question[homeInst]))
                          THEN trim(question[homeInst]) ELSE Null)
     /\ \A r \in DOMAIN routes :
          displayTimer(r) => seedAskedOnce(question[routes[r].inst])]_vars

\* C24: submitQuestion with a question that is not blank: when the router
\* returns a persona the status message names it and, after the display delay,
\* selectPersona is invoked with that persona and the question that was routed;
\* when it returns none the advisory is shown, the loading flag is cleared and
\* no persona is selected.
C24_RoutedQuestionIsAsked ==
  [][\A r \in DOMAIN routes :
       /\ (routes[r].pc = "routing" /\ routes'[r].pc = "delay") =>
            /\ routes'[r].bestScientist # "null"
            /\ liveHome(routes[r].inst) => statusMessage' = routes'[r].bestScientist
            /\ UNCHANGED <<selectedScientist, conv, currentView>>
       /\ (routes[r].pc = "routing" /\ routes'[r].pc = "advisory") =>
            /\ liveHome(routes[r].inst) => (statusMessage' = "advisory" /\ ~homeIsLoading')
            /\ UNCHANGED <<selectedScientist, conv, currentView>>
       /\ (routes[r].pc = "delay" /\ routes'[r].pc = "done") =>
            enterChat(ScientistById(routes[r].bestScientist), routes[r].question)]_vars

\* C25: a job is submitted exactly when a directive was extracted: a reply with
\* a directive marks the agent Turn of its ask generating with the directive as
\* prompt and submits exactly one job with that prompt; a reply without one
\* leaves the Turn idle and submits no job.  No Turn has more than one job.
C25_JobIffDirective ==
  [][/\ \A a \in DOMAIN asks : \A failed \in BOOLEAN : \A t \in RawReplies :
          (asks[a].pc = "awaiting" /\ responseReceived(a, failed, t)) =>
            LET directive == IF failed THEN Undefined ELSE parseResponse(t).videoPrompt
                n == Len(jobs')
            IN  IF Truthy(directive)
                THEN /\ n = Len(jobs) + 1
                     /\ jobs'[n].pc = "submitting"
                     /\ jobs'[n].ask = a
                     /\ jobs'[n].videoPrompt = directive
                     /\ \A i \in agentTurns(chatHistory', a) :
                          /\ chatHistory'[i].videoStatus = "generating"
                          /\ chatHistory'[i].videoPrompt = directive
                ELSE /\ jobs' = jobs
                     /\ \A i \in agentTurns(chatHistory', a) :
                          chatHistory'[i].videoStatus = "idle"
     /\ \A i \in DOMAIN chatHistory' :
          Cardinality({j \in DOMAIN jobs' :
                         jobs'[j].pc # "finished" /\ jobs'[j].messageIndex = i}) <= 1]_vars

\* the provider's answer that the job is not done yet
notDone == [done |-> FALSE, error |-> "none", uri |-> FALSE]

C27_FailedJobHasReason ==
  [][\A j \in DOMAIN jobs : \A o \in Operations :
       (o.done /\ o.error # "none" /\ operationReceived(j, o)) =>
         /\ jobs'[j].pc = "finished"
         /\ jobs'[j].videoUrl = 0
         /\ jobs'[j].error = (IF o.error = "message" THEN PROVIDER_MESSAGE
                              ELSE GENERATION_FAILED)
         /\ \A i \in DOMAIN chatHistory' :
              chatHistory'[i].videoUrl = chatHistory[i].videoUrl]_vars

\* a job reported done with an error that had no usable message has failed
\* with the generic reason, and its Turn shows it
C27_Witness ==
  \E j \in DOMAIN jobs :
    /\ jobs[j].pc = "finished"
    /\ jobs[j].error = GENERATION_FAILED
    /\ jobs[j].videoUrl = 0
    /\ \E i \in agentTurns(chatHistory, jobs[j].ask) :
         chatHistory[i].errorMessage = GENERATION_FAILED /\ chatHistory[i].videoUrl = 0

\* C28: when the provider reported done with a locator and the transfer of the
\* artifact fails or answers with a non-success status, the job ends as a
\* download failure: its Turn goes to error with the reason of the download
\* failure and gets no artifact handle.
C28_DownloadFailedIsDistinct ==
  [][\A j \in DOMAIN jobs :
       (jobs[j].pc = "downloading" /\ finishes(j) /\ jobs'[j].videoUrl = 0) =>
         /\ jobs'[j].error = DOWNLOAD_FAILED
         /\ \A i \in agentTurns(chatHistory', jobs[j].ask) :
              /\ chatHistory'[i].videoStatus = "error"
              /\ chatHistory'[i].errorMessage = DOWNLOAD_FAILED
              /\ chatHistory'[i].videoUrl = 0]_vars

\* C29: a failure thrown while the job is submitted or polled is caught and
\* returned as a failed result with a reason; generateVideo resumes and takes
\* the Turn of the job to error.
C29_ThrownRequestIsCaught ==
  [][\A j \in DOMAIN jobs : \A k \in ThrowKinds :
       (jobs[j].pc \in {"submitting", "polling"} /\ requestThrows(j, k)) =>
         /\ jobs'[j].pc = "finished"
         /\ jobs'[j].videoUrl = 0
         /\ jobs'[j].error \in {PROVIDER_MESSAGE, UNEXPECTED_ERROR}
         /\ \A i \in agentTurns(chatHistory', jobs[j].ask) :
              /\ chatHistory'[i].videoStatus = "error"
              /\ chatHistory'[i].errorMessage = jobs'[j].error]_vars

\* a poll request threw an error without message and the Turn of the job
\* shows the fallback reason
C29_Witness ==
  \E j \in DOMAIN jobs :
    /\ jobs[j].pc = "finished"
    /\ jobs[j].thrownAt = "polling"
    /\ jobs[j].error = UNEXPECTED_ERROR
    /\ \E i \in agentTurns(chatHistory, jobs[j].ask) :
         /\ chatHistory[i].videoStatus = "error"
         /\ chatHistory[i].errorMessage = UNEXPECTED_ERROR

\* the blob URLs created so far
createdUrls == {jobs[j].videoUrl : j \in DOMAIN jobs} \ {0}

\* C30: every blob URL is released once it is no longer displayed: when the
\* chat view is gone and no job is running, every URL created has been revoked.
C30_BlobUrlsReleased ==
  (currentView = "home" /\ \A j \in DOMAIN jobs : jobs[j].pc = "finished") =>
    createdUrls \subseteq revoked

\* the user returns to the selection: goHome has run
returnsToSelection == currentView = "chat" /\ currentView' = "home"

\* C31: returning to the selection discards the Conversation: afterwards the
\* view is home, no persona is selected and the chat history holds no Turn of
\* the Conversation that was left.
C31_GoHomeDiscardsConversation ==
  [][returnsToSelection =>
       /\ currentView' = "home"
       /\ selectedScientist' = NoScientist
       /\ chatHistory' = <<>>]_vars

\* ------------------------------------------------ the home view on its own
\* The operations of the search bar and the gallery, and the way back from
\* the chat view; no message is sent from the chat view and no reply arrives.
HomeNext ==
  \/ \E t \in TypedTexts : typeQuestion(t)
  \/ \E i \in DOMAIN scientists : selectScientist(i)
  \/ submitQuestionWithin(MaxRoutings)
  \/ \E r \in DOMAIN routes : \E failed \in BOOLEAN : \E t \in RouteAnswers :
       routeReceived(r, failed, t)
  \/ \E r \in DOMAIN routes : displayTimer(r)
  \/ \E r \in DOMAIN routes : advisoryTimer(r)
  \/ goBack

RouteSpec == Init /\ [][HomeNext]_vars

\* the routing requests in progress: accepted, and neither reported as
\* without match nor followed by their delayed selection yet
inProgress(rs) == {r \in DOMAIN rs : rs[r].pc \in {"routing", "delay"}}

\* C32: at most one routing request is in progress at a time: while one is,
\* a further submitQuestion is a no-op, and the delayed selection of a request
\* never replaces a Conversation started after the request was issued (the
\* chat view is not open when the selection is made).
C32_OneRoutingRequest ==
  [][/\ Len(routes') > Len(routes) => inProgress(routes) = {}
     /\ \A r \in DOMAIN routes : displayTimer(r) => currentView = "home"]_vars

\* the positions in history h of the Turns the user sent
userTurns(h) == {i \in DOMAIN h : h[i].sender = "user"}

\* C33: a Turn of the user never carries a video status, a directive, an
\* artifact handle or an error message, holds the text its ask was sent with,
\* and is left as it is by every step as long as it is in the history: only
\* agent Turns are updated.
C33_UserTurnsUntouched ==
  /\ [](\A i \in userTurns(chatHistory) :
          /\ chatHistory[i].videoStatus = "undefined"
          /\ chatHistory[i].videoPrompt = Undefined
          /\ chatHistory[i].videoUrl = 0
          /\ chatHistory[i].errorMessage = "undefined"
          /\ \A a \in DOMAIN asks :
               (asks[a].pc = "awaiting" /\ chatHistory[i].ask = a) =>
                 chatHistory[i].text = asks[a].text)
  /\ [][\A i \in userTurns(chatHistory) \cap userTurns(chatHistory') :
          chatHistory'[i].ask = chatHistory[i].ask => chatHistory'[i] = chatHistory[i]]_vars

\* a job left over from an earlier Conversation has written its artifact to
\* an agent Turn of the current history, next to a Turn of the user
C33_Witness ==
  \E i \in userTurns(chatHistory) : \E k \in DOMAIN chatHistory : \E j \in DOMAIN jobs :
    /\ chatHistory[k].sender = "ai"
    /\ chatHistory[k].ask = chatHistory[i].ask
    /\ jobs[j].pc = "finished"
    /\ jobs[j].ask # chatHistory[k].ask
    /\ jobs[j].videoUrl # 0
    /\ chatHistory[k].videoUrl = jobs[j].videoUrl

====
